---- MODULE Spec2Model ----
(***************************************************************************)
(* A spinning text cube (src/src/main.rs): the frame loop of main, the     *)
(* matrix-vector product, the perspective projection, the back-face test   *)
(* cull and the rasterizer draw_line.                                      *)
(*                                                                         *)
(* Number system.  The program computes in f32.  The model carries every   *)
(* f32 quantity as an integer count of a binary quantum:                   *)
(*   - screen coordinates in units of 1/Q   (Q  = 2^7),                    *)
(*   - cosines, sines, world coordinates, reciprocals and slopes in units  *)
(*     of 1/TS (TS = 2^14).                                                *)
(* Every multiplication and division rounds its result to the quantum of   *)
(* its result, as every f32 operation rounds to the f32 grid.  Values of   *)
(* the form k/Q with |k| < 2^24 are exactly representable in f32, their    *)
(* differences are exact in f32, and a product of two of them is rounded   *)
(* by RoundF32 exactly as the hardware rounds it (24 significant bits,     *)
(* ties to even).                                                          *)
(***************************************************************************)
EXTENDS Integers, Sequences, FiniteSets, TLC

(***************************************************************************)
(* Bounds of the model                                                     *)
(***************************************************************************)
\* ticks 0 .. MaxTick are stepped one by one (one full turn is 629 ticks)
MaxTick == 632
\* the last TailTicks ticks before the i32 limit, and the first TailTicks ticks after
\* a wrap, are stepped one by one
TailTicks == 12

(***************************************************************************)
(* Integer helpers                                                         *)
(***************************************************************************)
Abs(a) == IF a < 0 THEN -a ELSE a

Sgn(a) == IF a < 0 THEN -1 ELSE IF a > 0 THEN 1 ELSE 0

Min(a, b) == IF a <= b THEN a ELSE b

Max(a, b) == IF a >= b THEN a ELSE b

\* a / b rounded to the nearest integer (b # 0)
RDiv(a, b) == Sgn(a) * Sgn(b) * ((2 * Abs(a) + Abs(b)) \div (2 * Abs(b)))

\* quantum of screen coordinates: 1/Q
Q == 128

\* quantum of unit-sized quantities: 1/TS
TS == 16384

\* 2^24: an f32 significand holds 24 bits
F32Mant == 16777216

RECURSIVE F32Ulp(_, _)
\* the spacing of the f32 grid at magnitude m, in integer units (u starts at 1)
F32Ulp(m, u) == IF m \div u < F32Mant THEN u ELSE F32Ulp(m, 2 * u)

\* an exact integer result rounded to 24 significant bits, ties to even
RoundF32(a) ==
    LET m == Abs(a)
        u == F32Ulp(m, 1)
        lo == (m \div u) * u
        rem == m - lo
        up == IF 2 * rem > u THEN TRUE
              ELSE IF 2 * rem < u THEN FALSE
              ELSE ((m \div u) % 2) = 1
    IN  Sgn(a) * (IF up THEN lo + u ELSE lo)

(***************************************************************************)
(* i32 and the f32 angle                                                   *)
(***************************************************************************)
I32Max == 2147483647

I32Min == -2147483647 - 1

\* 2*pi, pi/2 in units of 1/TS
TwoPi == 102944

HalfPi == 25736

\* frame_number as f32 * 0.01 for the frame numbers within 64 of the i32
\* limits: all of them convert to 2^31 (resp. -2^31) as f32, the product
\* with 0.01f32 is 21474836.0 exactly, and 21474836 mod 2*pi = 1.8943036,
\* here in units of 1/TS
BigAngle == 31036

\* t = frame_number as f32 * 0.01 (line 86), reduced modulo 2*pi, in
\* units of 1/TS.  Below 2^24 the conversion to f32 is exact.
Angle(n) ==
    IF n > I32Max - 64 THEN BigAngle
    ELSE IF n < I32Min + 64 THEN (-BigAngle) % TwoPi
    ELSE RDiv(n * TS, 100) % TwoPi

RECURSIVE Series(_, _, _, _)
\* the sum term - term*x2/(k(k+1)) + ... of the alternating power series,
\* up to the factor with k = last
Series(term, x2, k, last) ==
    IF k > last THEN term
    ELSE term + Series(-RDiv(term * x2, TS * k * (k + 1)), x2, k + 2, last)

\* cos and sin on the first quadrant, 0 <= x < pi/2
CosQ(x) == Series(TS, RDiv(x * x, TS), 1, 11)

SinQ(x) == Series(x, RDiv(x * x, TS), 2, 12)

\* cos and sin never leave [-1, 1]
Unit(v) == Max(-TS, Min(TS, v))

\* t.cos() and t.sin() (line 87) of the reduced angle r, 0 <= r < 2*pi
Cos(r) ==
    LET q == r \div HalfPi
        x == r - q * HalfPi
    IN  Unit(CASE q = 0 -> CosQ(x)
               [] q = 1 -> -SinQ(x)
               [] q = 2 -> -CosQ(x)
               [] OTHER -> SinQ(x))

Sin(r) ==
    LET q == r \div HalfPi
        x == r - q * HalfPi
    IN  Unit(CASE q = 0 -> SinQ(x)
               [] q = 1 -> CosQ(x)
               [] q = 2 -> -SinQ(x)
               [] OTHER -> -CosQ(x))

(***************************************************************************)
(* Constants of the program                                                *)
(***************************************************************************)
\* a 0-based array from a tuple
Arr(t) == [i \in 0 .. Len(t) - 1 |-> t[i + 1]]

\* the 8 vertices of the cube (lines 26-35), components in units of 1/TS
VERTICES ==
    Arr(<< Arr(<<-TS, -TS, -TS, TS>>),
           Arr(<<-TS, -TS,  TS, TS>>),
           Arr(<< TS, -TS, -TS, TS>>),
           Arr(<< TS, -TS,  TS, TS>>),
           Arr(<<-TS,  TS, -TS, TS>>),
           Arr(<<-TS,  TS,  TS, TS>>),
           Arr(<< TS,  TS, -TS, TS>>),
           Arr(<< TS,  TS,  TS, TS>> ) >>)

\* the 6 faces, each the indices of its 4 vertices (lines 40-47)
FACES ==
    Arr(<< Arr(<<1, 5, 7, 3>>),
           Arr(<<3, 7, 6, 2>>),
           Arr(<<0, 4, 5, 1>>),
           Arr(<<2, 6, 4, 0>>),
           Arr(<<0, 1, 3, 2>>),
           Arr(<<5, 4, 6, 7>> ) >>)

SCREEN_WIDTH == 80

SCREEN_HEIGHT == 40

\* SCREEN_WIDTH as f32 * 0.5 and SCREEN_HEIGHT as f32 * 0.5, in units of 1/Q
OFFSET_X == (SCREEN_WIDTH * Q) \div 2

OFFSET_Y == (SCREEN_HEIGHT * Q) \div 2

\* a scale of the whole width in place of half of it
SCALE_X_Full == SCREEN_WIDTH * Q

SCALE_X == (SCREEN_WIDTH * Q) \div 2

SCALE_Y == (SCREEN_HEIGHT * Q) \div 2

\* a translation of -0.5 in place of -2.5
CameraZ_Near == -(TS \div 2)

\* the translation -2.5 of the cube along z (line 94), in units of 1/TS
CameraZ == -40960

Rows == 0 .. SCREEN_HEIGHT - 1

Cols == 0 .. SCREEN_WIDTH - 1

\* A frame is carried as the function from the cells <<row, column>> that
\* hold a drawn glyph to that glyph; every other cell of Rows x Cols holds
\* the background b' '.
\* [[b' '; SCREEN_WIDTH]; SCREEN_HEIGHT] (line 84)
BlankFrame == [cell \in {} |-> " "]

\* frame[r][c]
Glyph(fr, r, c) == IF <<r, c>> \in DOMAIN fr THEN fr[<<r, c>>] ELSE " "

(***************************************************************************)
(* Linear algebra and projection                                           *)
(***************************************************************************)
\* the f32 product of two quantities in units of 1/TS
Mul(a, b) == RDiv(a * b, TS)

\* the matrix of lines 89-95 for cosine c and sine s; each row is a column
\* of the conceptual matrix
CubeToWorld(c, s) ==
    Arr(<< Arr(<< c, 0,       s, 0>>),
           Arr(<< 0, TS,      0, 0>>),
           Arr(<<-s, 0,       c, 0>>),
           Arr(<< 0, 0, CameraZ, TS>> ) >>)

\* lines 54-64: the weighted sum of the rows of m
matrix_times_vector(m, v) ==
    [k \in 0 .. 3 |->
        Mul(v[0], m[0][k]) + Mul(v[1], m[1][k])
        + Mul(v[2], m[2][k]) + Mul(v[3], m[3][k])]

\* 1.0 / z (line 101).  In f32 a zero z gives an infinity, which the fixed
\* quantum cannot carry; every z the loop produces is non-zero (C3).
Recip(z) == IF z = 0 THEN 0 ELSE RDiv(TS * TS, z)

\* lines 100-104: one vertex to its screen position [x, y], in units of 1/Q
Project(m, v) ==
    LET world_pos == matrix_times_vector(m, v)
        recip_z == Recip(world_pos[2])
        screen_x == RDiv(Mul(world_pos[0], recip_z) * SCALE_X, TS) + OFFSET_X
        screen_y == RDiv(Mul(world_pos[1], recip_z) * SCALE_Y, TS) + OFFSET_Y
    IN  Arr(<<screen_x, screen_y>>)

(***************************************************************************)
(* cull (lines 131-135)                                                    *)
(***************************************************************************)
\* the comparison the other way round
cull_Reversed(p0, p1, p2) ==
    LET dx == Arr(<<p1[0] - p0[0], p2[0] - p1[0]>>)
        dy == Arr(<<p1[1] - p0[1], p2[1] - p1[1]>>)
    IN  RoundF32(dx[0] * dy[1]) < RoundF32(dx[1] * dy[0])

\* >= in place of >
cull_Inclusive(p0, p1, p2) ==
    LET dx == Arr(<<p1[0] - p0[0], p2[0] - p1[0]>>)
        dy == Arr(<<p1[1] - p0[1], p2[1] - p1[1]>>)
    IN  RoundF32(dx[0] * dy[1]) >= RoundF32(dx[1] * dy[0])

cull(p0, p1, p2) ==
    LET dx == Arr(<<p1[0] - p0[0], p2[0] - p1[0]>>)
        dy == Arr(<<p1[1] - p0[1], p2[1] - p1[1]>>)
    IN  RoundF32(dx[0] * dy[1]) > RoundF32(dx[1] * dy[0])

(***************************************************************************)
(* draw_line (lines 139-164)                                               *)
(***************************************************************************)
\* f32::ceil of a value in units of 1/Q, as an integer
Ceil(v) == -((-v) \div Q)

\* `as usize` of an integral f32: negative values saturate to 0
AsUsize(i) == IF i < 0 THEN 0 ELSE i

\* `as usize` of an f32 in units of 1/Q: truncation toward zero, negative
\* values saturate to 0
TruncUsize(v) == IF v < 0 THEN 0 ELSE v \div Q

\* the indices a loop of draw_line visits between the coordinates u0 and u1
\* (lines 144-149 and 154-159)
IterFrom(u0, u1) == AsUsize(Ceil(Min(u0, u1)))

\* a loop that includes its upper bound
IterTo_Inclusive(u0, u1) == AsUsize(Ceil(Max(u0, u1))) + 1

IterTo(u0, u1) == AsUsize(Ceil(Max(u0, u1)))

\* the coordinate interpolated at index i (lines 150 and 160), before the
\* cast: (i as f32 - u0) * slope + w0, in units of 1/Q
Interpolate(i, u0, slope, w0) == RDiv((i * Q - u0) * slope, TS) + w0

\* dx / dy resp. dy / dx (lines 148 and 158), in units of 1/TS.  0.0 / 0.0 is
\* a NaN, which is never used: the loop of a zero-length segment is empty.
Slope(num, den) == IF den = 0 THEN 0 ELSE RDiv(num * TS, den)

\* the cell of loop index i: the interpolated coordinate before its cast
\* (raw), the row and the column after it
Step(steep, i, raw) ==
    [raw |-> raw,
     row |-> IF steep THEN i ELSE TruncUsize(raw),
     col |-> IF steep THEN TruncUsize(raw) ELSE i]

\* the cells of the loop over from .. to - 1 along the axis with start
\* coordinate u0, the other coordinate starting at w0
Steps(steep, from, to, u0, slope, w0) ==
    [k \in 1 .. (IF to > from THEN to - from ELSE 0) |->
        Step(steep, from + k - 1, Interpolate(from + k - 1, u0, slope, w0))]

\* the steps before the first index out of bounds: frame[iy][ix] panics there
Done(st, bad) ==
    IF bad = {} THEN Len(st) ELSE (CHOOSE k \in bad : \A j \in bad : k <= j) - 1

Cells(st, n) == {<<st[k].row, st[k].col>> : k \in 1 .. n}

\* the frame with glyph in the cells hit
Paint(fr, hit, glyph) ==
    [cell \in DOMAIN fr \cup hit |-> IF cell \in hit THEN glyph ELSE fr[cell]]

\* The result of a loop of draw_line over the steps st:
\*   steps    the cells computed in loop order
\*   panicked TRUE when an index was out of bounds (the indexing panics)
\*   done     how many of the steps were written before the panic
\*   frame    the frame after the writes
LineLoop(fr, st, bad, glyph) ==
    [steps |-> st,
     glyph |-> glyph,
     panicked |-> bad # {},
     done |-> Done(st, bad),
     frame |-> Paint(fr, Cells(st, Done(st, bad)), glyph)]

OutOfBounds(st) ==
    {k \in 1 .. Len(st) : st[k].row \notin Rows \/ st[k].col \notin Cols}

\* lines 143-163 for the deltas dx and dy
Rasterize(fr, x0, y0, x1, y1, steps) ==
    LineLoop(fr, steps, OutOfBounds(steps),
             IF Abs(y1 - y0) > Abs(x1 - x0) THEN "|" ELSE "-")

draw_line(fr, start, end) ==
    Rasterize(fr, start[0], start[1], end[0], end[1],
        IF Abs(end[1] - start[1]) > Abs(end[0] - start[0])
        THEN Steps(TRUE, IterFrom(start[1], end[1]), IterTo(start[1], end[1]),
                   start[1], Slope(end[0] - start[0], end[1] - start[1]), start[0])
        ELSE Steps(FALSE, IterFrom(start[0], end[0]), IterTo(start[0], end[0]),
                   start[0], Slope(end[1] - start[1], end[0] - start[0]), start[1]))

(***************************************************************************)
(* The frame loop of main (lines 82-127)                                   *)
(***************************************************************************)
VARIABLES
    pc,             \* position in main: "next", "build", "project", "faces",
                    \* "emit", "sleep"; after a panic "overflow_panic" or
                    \* "index_panic"; in the function harness "fn_input",
                    \* "fn_done"
    range_start,    \* the next value the iterator 0.. yields (line 83)
    frame_number,   \* the value it yielded last
    frame,          \* line 84
    cube_to_world,  \* lines 89-95
    world_pos,      \* line 100, for each vertex
    screen_pos,     \* line 98
    face_idx,       \* the face the loop of line 108 is at
    culled,         \* the faces of this tick for which cull returned true
    calls,          \* the draw_line calls of the face processed last, as
                    \* pairs <<start, end>> of vertex indices
    steps,          \* the cells draw_line computed for that face
    touched,        \* the cells draw_line wrote during this tick
    sink,           \* the grid printed last and its tick (lines 118-123)
    emits,          \* how many grids were printed during this tick
    tp,             \* inputs of the function harness: three screen points
    tres            \* results of the function harness

vars == <<pc, range_start, frame_number, frame, cube_to_world, world_pos,
          screen_pos, face_idx, culled, calls, steps, touched, sink, emits,
          tp, tres>>

loop_vars == <<frame, cube_to_world, world_pos, screen_pos, face_idx, culled,
               calls, steps, touched, sink>>

harness_vars == <<tp, tres>>

ZeroPos == [v \in 0 .. 7 |-> Arr(<<0, 0>>)]

ZeroVec == [v \in 0 .. 7 |-> Arr(<<0, 0, 0, 0>>)]

Init ==
    /\ pc = "next"
    /\ range_start = 0
    /\ frame_number = 0
    /\ frame = BlankFrame
    /\ cube_to_world = CubeToWorld(TS, 0)
    /\ world_pos = ZeroVec
    /\ screen_pos = ZeroPos
    /\ face_idx = 0
    /\ culled = {}
    /\ calls = <<>>
    /\ steps = <<>>
    /\ touched = {}
    /\ sink = [tick |-> -1, grid |-> BlankFrame]
    /\ emits = 0
    /\ tp = <<>>
    /\ tres = <<>>

\* the frame numbers the model steps through one by one
Stepped(n) ==
    \/ n >= 0 /\ n <= MaxTick
    \/ n >= I32Max - TailTicks
    \/ n < I32Min + TailTicks

\* line 83: the iterator yields range_start and advances by one
IterNext ==
    /\ pc = "next"
    /\ range_start < I32Max
    /\ Stepped(range_start)
    /\ frame_number' = range_start
    /\ range_start' = range_start + 1
    /\ emits' = 0
    /\ pc' = "build"
    /\ UNCHANGED <<loop_vars, harness_vars>>

\* line 83 at range_start = i32::MAX with overflow checks (a debug build):
\* the step range_start + 1 panics before the body runs
IterOverflowPanic ==
    /\ pc = "next"
    /\ range_start = I32Max
    /\ pc' = "overflow_panic"
    /\ UNCHANGED <<range_start, frame_number, emits, loop_vars, harness_vars>>

\* line 83 at range_start = i32::MAX without overflow checks (a release
\* build): the step wraps around to i32::MIN
IterOverflowWrap ==
    /\ pc = "next"
    /\ range_start = I32Max
    /\ frame_number' = range_start
    /\ range_start' = I32Min
    /\ emits' = 0
    /\ pc' = "build"
    /\ UNCHANGED <<loop_vars, harness_vars>>

\* lines 86-95: the transform of tick n
TransformAt(n) ==
    LET t == Angle(n)
    IN  CubeToWorld(Cos(t), Sin(t))

\* the frame of the tick before drawn over, no new frame
BuildTransform_KeepsFrame ==
    /\ pc = "build"
    /\ touched' = {}
    /\ cube_to_world' = TransformAt(frame_number)
    /\ pc' = "project"
    /\ UNCHANGED <<range_start, frame_number, frame, world_pos, screen_pos,
                   face_idx, culled, calls, steps, sink, emits, harness_vars>>

\* lines 84-95: a new frame and the transform of this tick
BuildTransform ==
    /\ pc = "build"
    /\ frame' = BlankFrame
    /\ touched' = {}
    /\ cube_to_world' = TransformAt(frame_number)
    /\ pc' = "project"
    /\ UNCHANGED <<range_start, frame_number, world_pos, screen_pos, face_idx,
                   culled, calls, steps, sink, emits, harness_vars>>

\* lines 98-106 under the transform m
ProjectAll(m) == [v \in 0 .. 7 |-> Project(m, VERTICES[v])]

\* lines 98-106: all 8 vertices to screen space
ProjectVertices ==
    /\ pc = "project"
    /\ world_pos' = [v \in 0 .. 7 |-> matrix_times_vector(cube_to_world, VERTICES[v])]
    /\ screen_pos' = ProjectAll(cube_to_world)
    /\ face_idx' = 0
    /\ culled' = {}
    /\ calls' = <<>>
    /\ steps' = <<>>
    /\ pc' = "faces"
    /\ UNCHANGED <<range_start, frame_number, frame, cube_to_world, touched,
                   sink, emits, harness_vars>>

\* the state of a face after the call draw_line(frame, start, end) gave r
AfterCall(acc, start, end, r) ==
    [frame |-> r.frame,
     panicked |-> r.panicked,
     calls |-> Append(acc.calls, <<start, end>>),
     steps |-> acc.steps \o r.steps,
     written |-> acc.written \cup Cells(r.steps, r.done)]

RECURSIVE DrawFace_KeepsEnd(_, _, _, _, _)
\* the loop without its `end = start`
DrawFace_KeepsEnd(sp, face, k, end, acc) ==
    IF k > 3 \/ acc.panicked THEN acc
    ELSE DrawFace_KeepsEnd(sp, face, k + 1, end,
             AfterCall(acc, face[k], end,
                       draw_line(acc.frame, sp[face[k]], sp[end])))

RECURSIVE DrawFace(_, _, _, _, _)
\* lines 110-114: the edges of face from its k-th vertex on, the previous
\* vertex being end; acc carries the frame, the calls and the steps so far
DrawFace(sp, face, k, end, acc) ==
    IF k > 3 \/ acc.panicked THEN acc
    ELSE DrawFace(sp, face, k + 1, face[k],
             AfterCall(acc, face[k], end,
                       draw_line(acc.frame, sp[face[k]], sp[end])))

\* no call yet on the frame fr
NoCall(fr) ==
    [frame |-> fr, panicked |-> FALSE, calls |-> <<>>, steps |-> <<>>,
     written |-> {}]

\* lines 109-115 for one face on the frame fr: the cull test and, when it
\* fails, the 4 edges
ProcessFace(sp, fr, face) ==
    IF cull(sp[face[0]], sp[face[1]], sp[face[2]])
    THEN [skip |-> TRUE, draw |-> NoCall(fr)]
    ELSE [skip |-> FALSE, draw |-> DrawFace(sp, face, 0, face[3], NoCall(fr))]

\* the variables of the face loop after a face gave r
FaceDone(r) ==
    /\ culled' = IF r.skip THEN culled \cup {face_idx} ELSE culled
    /\ frame' = r.draw.frame
    /\ calls' = r.draw.calls
    /\ steps' = r.draw.steps
    /\ touched' = touched \cup r.draw.written
    /\ face_idx' = face_idx + 1
    /\ pc' = IF r.draw.panicked THEN "index_panic"
             ELSE IF face_idx = 5 THEN "emit" ELSE "faces"

\* lines 108-116, one face per step
CullAndDraw ==
    /\ pc = "faces"
    /\ face_idx < 6
    /\ FaceDone(ProcessFace(screen_pos, frame, FACES[face_idx]))
    /\ UNCHANGED <<range_start, frame_number, cube_to_world, world_pos,
                   screen_pos, sink, emits, harness_vars>>

\* lines 118-123: the rows of the frame go to standard output
Emit ==
    /\ pc = "emit"
    /\ sink' = [tick |-> frame_number, grid |-> frame]
    /\ emits' = emits + 1
    /\ pc' = "sleep"
    /\ UNCHANGED <<range_start, frame_number, frame, cube_to_world, world_pos,
                   screen_pos, face_idx, culled, calls, steps, touched,
                   harness_vars>>

\* line 125
Sleep ==
    /\ pc = "sleep"
    /\ pc' = "next"
    /\ UNCHANGED <<range_start, frame_number, emits, loop_vars, harness_vars>>

\* the state of the face loop after face f gave r
AfterFace(acc, f, r) ==
    [frame |-> r.draw.frame,
     panicked |-> r.draw.panicked,
     culled |-> IF r.skip THEN acc.culled \cup {f} ELSE acc.culled,
     calls |-> r.draw.calls,
     steps |-> r.draw.steps,
     touched |-> acc.touched \cup r.draw.written]

RECURSIVE FacesFrom(_, _, _)
\* what the loop of lines 108-116 leaves when it runs from face f to the end
FacesFrom(sp, acc, f) ==
    IF f > 5 \/ acc.panicked THEN acc
    ELSE FacesFrom(sp, AfterFace(acc, f, ProcessFace(sp, acc.frame, FACES[f])),
                   f + 1)

\* the variables as iteration n leaves them: m its transform, r its faces
TickDone(n, m, r) ==
    /\ frame_number' = n
    /\ range_start' = n + 1
    /\ cube_to_world' = m
    /\ world_pos' = [v \in 0 .. 7 |-> matrix_times_vector(m, VERTICES[v])]
    /\ screen_pos' = ProjectAll(m)
    /\ face_idx' = 6
    /\ frame' = r.frame
    /\ culled' = r.culled
    /\ calls' = r.calls
    /\ steps' = r.steps
    /\ touched' = r.touched
    /\ sink' = [tick |-> n, grid |-> r.frame]
    /\ emits' = 1
    /\ pc' = IF r.panicked THEN "index_panic" ELSE "next"

\* iteration n of the loop body, lines 84-125, on its own
WholeTick(n) ==
    FacesFrom(ProjectAll(TransformAt(n)),
              [frame |-> BlankFrame, panicked |-> FALSE, culled |-> {},
               calls |-> <<>>, steps |-> <<>>, touched |-> {}], 0)

\* The iterations from range_start up to the last one before the final
\* TailTicks of the i32 range, taken in one step: the variables are left as
\* the last of these iterations leaves them.  An iteration reads nothing of
\* the one before it but the iterator.
RunTicks ==
    /\ pc = "next"
    /\ range_start > 0
    /\ range_start <= MaxTick + 1
    /\ TickDone(I32Max - TailTicks - 1, TransformAt(I32Max - TailTicks - 1),
                WholeTick(I32Max - TailTicks - 1))
    /\ UNCHANGED harness_vars

Next ==
    \/ IterNext
    \/ IterOverflowPanic
    \/ IterOverflowWrap
    \/ RunTicks
    \/ BuildTransform
    \/ ProjectVertices
    \/ CullAndDraw
    \/ Emit
    \/ Sleep

Spec == Init /\ [][Next]_vars

(***************************************************************************)
(* The functions cull and draw_line on their own                           *)
(***************************************************************************)
\* the screen point (x, y), in units of 1/Q
Pt(x, y) == Arr(<<x, y>>)

\* -3, 2, 5, 5.5, 8, 81 and -2, 2, 5, 8 cells
SmallPts == {Pt(x, y) : x \in {-384, 256, 640, 704, 1024, 10368},
                        y \in {-256, 256, 640, 1024}}

\* points whose edge products need more than 24 bits
WidePts == {Pt(x, y) : x \in {0, 4097, 8193}, y \in {0, 4098, 8195}}

\* a frame that is not blank, for draw_line to draw on
BaseFrame == [cell \in {<<3, 5>>, <<5, 3>>, <<0, 0>>} |-> IF cell[1] = 3 THEN "|" ELSE "-"]

\* the ordered pairs of the three input points
Pairs == {pr \in (1 .. 3) \X (1 .. 3) : pr[1] # pr[2]}

InitFn ==
    /\ pc = "fn_input"
    /\ tp \in (SmallPts \X SmallPts \X SmallPts) \cup (WidePts \X WidePts \X WidePts)
    /\ tres = <<>>
    /\ range_start = 0
    /\ frame_number = 0
    /\ frame = BlankFrame
    /\ cube_to_world = CubeToWorld(TS, 0)
    /\ world_pos = ZeroVec
    /\ screen_pos = ZeroPos
    /\ face_idx = 0
    /\ culled = {}
    /\ calls = <<>>
    /\ steps = <<>>
    /\ touched = {}
    /\ sink = [tick |-> -1, grid |-> BlankFrame]
    /\ emits = 0

\* cull on the three points, in both orders
ApplyCull ==
    /\ pc = "fn_input"
    /\ tres' = [op |-> "cull",
                fwd |-> cull(tp[1], tp[2], tp[3]),
                rev |-> cull(tp[3], tp[2], tp[1])]
    /\ pc' = "fn_done"
    /\ UNCHANGED <<tp, range_start, frame_number, emits, loop_vars>>

\* draw_line on BaseFrame between every two of the three points
ApplyDrawLine ==
    /\ pc = "fn_input"
    /\ tres' = [op |-> "draw_line",
                lines |-> [pr \in Pairs |->
                              draw_line(BaseFrame, tp[pr[1]], tp[pr[2]])]]
    /\ pc' = "fn_done"
    /\ UNCHANGED <<tp, range_start, frame_number, emits, loop_vars>>

NextFn ==
    \/ ApplyCull
    \/ ApplyDrawLine

SpecFn == InitFn /\ [][NextFn]_vars

TypeOK ==
    /\ pc \in {"next", "build", "project", "faces", "emit", "sleep",
              "overflow_panic", "index_panic", "fn_input", "fn_done"}
    /\ face_idx \in 0 .. 6

(***************************************************************************)
(* Properties of the frame loop (Spec)                                     *)
(***************************************************************************)
\* all 6 faces of tick 0 have been processed
TickZeroDone == frame_number = 0 /\ face_idx = 6

\* C1 as stated: at tick 0 the cull test culls exactly 3 of the 6 faces and
\* the other 3 are drawn.
C1_ThreeCulled == TickZeroDone => Cardinality(culled) = 3

\* C1, amended: at tick 0 the cull test culls exactly 5 of the 6 faces, the
\* faces 1 to 5 of FACES; only face 0, [1, 5, 7, 3], is drawn.
C1_FiveCulled == TickZeroDone => culled = 1 .. 5

C1_Witness == TickZeroDone /\ pc = "emit" /\ culled = 1 .. 5 /\ frame # BlankFrame

\* C2: in every tick, every cell draw_line computes for the edges of the
\* faces that are not culled lies inside the grid, row in 0..39 and column
\* in 0..79, and no indexing panics; the interpolated coordinate is inside
\* the grid already before its cast.
C2_CellsInsideGrid ==
    /\ pc # "index_panic"
    /\ \A k \in 1 .. Len(steps) :
          /\ steps[k].row \in Rows
          /\ steps[k].col \in Cols
          /\ steps[k].raw >= 0

C2_Witness ==
    /\ pc = "faces"
    /\ frame_number = 100
    /\ Len(steps) > 40
    /\ \E k \in 1 .. Len(steps) : steps[k].col > 55

\* the vertices have been transformed at least once
Projected == world_pos # ZeroVec

\* C3: in every tick the z component of every transformed vertex is
\* non-zero and has the same sign for all 8 vertices; it stays at least one
\* unit away from 0.
C3_DepthKeepsSign ==
    Projected =>
        \A v \in 0 .. 7 :
            /\ world_pos[v][2] # 0
            /\ Sgn(world_pos[v][2]) = Sgn(world_pos[0][2])
            /\ Abs(world_pos[v][2]) >= TS

C3_Witness ==
    /\ pc = "faces"
    /\ frame_number = 79
    /\ \E v \in 0 .. 7 : world_pos[v][2] > -18000

\* C4 as stated: the tick index grows by exactly one per tick, for any
\* number of ticks, and the counter never overflows, faults or wraps: once
\* the loop has started, the iterator is one ahead of the tick it yielded
\* last and no overflow panic has happened.
C4_CounterNeverOverflows ==
    /\ pc # "overflow_panic"
    /\ \/ range_start = 0
       \/ frame_number < I32Max /\ range_start = frame_number + 1

\* C8: for every face of every tick, if cull on the screen positions of its
\* first three vertices is false, draw_line is called exactly 4 times, for
\* the edges f0-f3, f1-f0, f2-f1, f3-f2 in this order; if cull is true,
\* draw_line is not called for the face.
C8_FourEdgesOrNone ==
    face_idx >= 1 =>
        LET f == FACES[face_idx - 1]
        IN  IF cull(screen_pos[f[0]], screen_pos[f[1]], screen_pos[f[2]])
            THEN calls = <<>>
            ELSE calls = << <<f[0], f[3]>>, <<f[1], f[0]>>,
                            <<f[2], f[1]>>, <<f[3], f[2]>> >>

C8_Witness ==
    /\ pc = "faces"
    /\ frame_number = 100
    /\ face_idx = 2
    /\ calls = << <<3, 2>>, <<7, 3>>, <<6, 7>>, <<2, 6>> >>

\* C10: every tick starts from a grid of background cells; the frame holds
\* a glyph exactly in the cells draw_line wrote during the tick; the frame of
\* a tick is printed exactly once, after its 6 faces and before the next
\* tick begins.
C10_FrameOfThisTickOnly ==
    /\ pc = "project" => frame = BlankFrame
    /\ pc \in {"project", "faces", "emit", "sleep"} => DOMAIN frame = touched
    /\ \A cell \in DOMAIN frame : frame[cell] \in {"|", "-"}
    /\ pc \in {"build", "project", "faces", "emit"} => emits = 0
    /\ pc = "emit" => face_idx = 6
    /\ pc = "sleep" \/ (pc = "next" /\ range_start # 0) =>
          /\ emits = 1
          /\ face_idx = 6
          /\ sink = [tick |-> frame_number, grid |-> frame]

C10_Witness ==
    /\ pc = "sleep"
    /\ frame_number = 100
    /\ sink.tick = 100
    /\ sink.grid = frame
    /\ Cardinality(DOMAIN frame) > 100

(***************************************************************************)
(* Properties of cull and draw_line (SpecFn)                               *)
(***************************************************************************)
CullDone == pc = "fn_done" /\ tres.op = "cull"

LineDone == pc = "fn_done" /\ tres.op = "draw_line"

\* the exact cross product of the edges p1 - p0 and p2 - p1
Cross(p0, p1, p2) ==
    (p1[0] - p0[0]) * (p2[1] - p1[1]) - (p2[0] - p1[0]) * (p1[1] - p0[1])

\* both edge products are f32 values as they stand
ExactProducts(p0, p1, p2) ==
    /\ RoundF32((p1[0] - p0[0]) * (p2[1] - p1[1])) = (p1[0] - p0[0]) * (p2[1] - p1[1])
    /\ RoundF32((p2[0] - p1[0]) * (p1[1] - p0[1])) = (p2[0] - p1[0]) * (p1[1] - p0[1])

\* C5 as stated: if the cross product is non-zero, cull(p0, p1, p2) and
\* cull(p2, p1, p0) give opposite answers; if it is zero, both are false.
C5_OppositeUnlessZero ==
    CullDone =>
        IF Cross(tp[1], tp[2], tp[3]) # 0
        THEN tres.fwd # tres.rev
        ELSE ~tres.fwd /\ ~tres.rev

\* C5, amended: cull(p0, p1, p2) is true only if the cross product is
\* positive and cull(p2, p1, p0) only if it is negative, so they are never
\* both true and both are false when it is zero; they give opposite answers
\* when it is non-zero and both edge products are exact in f32.
C5_OppositeWhenExact ==
    CullDone =>
        /\ tres.fwd => Cross(tp[1], tp[2], tp[3]) > 0
        /\ tres.rev => Cross(tp[1], tp[2], tp[3]) < 0
        /\ Cross(tp[1], tp[2], tp[3]) # 0 /\ ExactProducts(tp[1], tp[2], tp[3])
              => tres.fwd # tres.rev

C5_Witness ==
    /\ CullDone
    /\ tp = <<Pt(0, 0), Pt(4097, 4098), Pt(8193, 8195)>>
    /\ ~tres.fwd
    /\ ~tres.rev

\* an integer coordinate, a point with integer coordinates inside the grid
Whole(v) == v % Q = 0

InGrid(p) ==
    /\ Whole(p[0]) /\ p[0] >= 0 /\ p[0] < SCREEN_WIDTH * Q
    /\ Whole(p[1]) /\ p[1] >= 0 /\ p[1] < SCREEN_HEIGHT * Q

\* the half-open range [ceil(min) .. ceil(max)) of the coordinates u0, u1
HalfOpen(u0, u1) == Ceil(Min(u0, u1)) .. Ceil(Max(u0, u1)) - 1

\* the cells C6 expects between the axis-aligned points a and b
Expected(a, b) ==
    IF a[0] = b[0] THEN {<<r, a[0] \div Q>> : r \in HalfOpen(a[1], b[1])}
    ELSE {<<a[1] \div Q, c>> : c \in HalfOpen(a[0], b[0])}

\* C6: for an axis-aligned segment with distinct integer endpoints inside
\* the grid, draw_line marks exactly the cells whose index along the axis is
\* in [ceil(min) .. ceil(max)) and whose other index is the fixed coordinate,
\* with '|' if vertical and '-' if horizontal, and changes no other cell;
\* for (5,2)-(5,8) these are the rows 2..7 of column 5, for (2,5)-(8,5) the
\* columns 2..7 of row 5.
C6_AxisAligned ==
    LineDone =>
        \A pr \in Pairs :
            LET a == tp[pr[1]]
                b == tp[pr[2]]
                vertical == a[0] = b[0]
                r == tres.lines[pr]
            IN  /\ InGrid(a) /\ InGrid(b) /\ a # b /\ (a[0] = b[0] \/ a[1] = b[1]) =>
                    /\ ~r.panicked
                    /\ DOMAIN r.frame = DOMAIN BaseFrame \cup Expected(a, b)
                    /\ \A cell \in DOMAIN r.frame :
                          r.frame[cell] =
                              IF cell \in Expected(a, b)
                              THEN (IF vertical THEN "|" ELSE "-")
                              ELSE BaseFrame[cell]
                /\ a = Pt(640, 256) /\ b = Pt(640, 1024) =>
                      Cells(r.steps, r.done) = {<<row, 5>> : row \in 2 .. 7}
                /\ a = Pt(256, 640) /\ b = Pt(1024, 640) =>
                      Cells(r.steps, r.done) = {<<5, col>> : col \in 2 .. 7}

C6_Witness ==
    /\ LineDone
    /\ tp[1] = Pt(640, 256)
    /\ tp[2] = Pt(640, 1024)
    /\ Glyph(tres.lines[<<1, 2>>].frame, 7, 5) = "|"
    /\ Glyph(tres.lines[<<1, 2>>].frame, 8, 5) = " "
    /\ Glyph(tres.lines[<<1, 2>>].frame, 3, 5) = "|"

\* a computed cell outside the grid: its interpolated coordinate is a whole
\* cell or more below 0, or its row or column is beyond the last one
Outside(st) ==
    \/ st.raw <= -Q
    \/ st.row \notin Rows
    \/ st.col \notin Cols

\* C7 as stated: whenever the row or column draw_line computes for a cell is
\* outside the grid, negative values included, the operation ends in a panic
\* and the coordinate is not turned into a write: the cell is the one the
\* loop stops at.
C7_OutsideAlwaysFaults ==
    LineDone =>
        \A pr \in Pairs :
            LET r == tres.lines[pr]
            IN  \A k \in 1 .. Min(Len(r.steps), r.done + 1) :
                    Outside(r.steps[k]) => r.panicked /\ k = r.done + 1

\* the indices the loop of a result visited or was to visit
Visited(r) ==
    IF r.glyph = "|" THEN {r.steps[k].row : k \in 1 .. Len(r.steps)}
    ELSE {r.steps[k].col : k \in 1 .. Len(r.steps)}

\* the coordinate of p along the axis a result is stepped along
Along(r, p) == IF r.glyph = "|" THEN p[1] ELSE p[0]

\* C9 as stated: for segments a-b and b-c stepped along the same axis with
\* a <= b <= c there, the index ranges of a-b and b-c are disjoint and their
\* union is the range of a-c, namely [ceil(a) .. ceil(c)), whichever
\* endpoint each segment is given first.
C9_RangesPartition ==
    LineDone =>
        \A i, j, k \in 1 .. 3 :
            LET ab == tres.lines[<<i, j>>]
                bc == tres.lines[<<j, k>>]
                ac == tres.lines[<<i, k>>]
            IN  /\ i # j /\ j # k /\ i # k
                /\ ab.glyph = bc.glyph /\ bc.glyph = ac.glyph
                /\ Along(ab, tp[i]) <= Along(ab, tp[j])
                /\ Along(ab, tp[j]) <= Along(ab, tp[k])
                =>  /\ Visited(ab) \cap Visited(bc) = {}
                    /\ Visited(ab) \cup Visited(bc) = Visited(ac)
                    /\ Visited(ac) = HalfOpen(Along(ac, tp[i]), Along(ac, tp[k]))
                    /\ Visited(tres.lines[<<j, i>>]) = Visited(ab)
                    /\ Visited(tres.lines[<<k, j>>]) = Visited(bc)
                    /\ Visited(tres.lines[<<k, i>>]) = Visited(ac)

====
